---------------------------- MODULE Spec2Model ----------------------------
(***************************************************************************)
(* Model of lvjp/go-utils password hashing: the PHC string codec           *)
(* (password/hashing/phc) and the argon2id hasher built on it              *)
(* (password/hashing/argon2).                                              *)
(*                                                                         *)
(* A Go string or []byte of text is a sequence of one-character strings,   *)
(* a []byte of binary data is a sequence of numbers in 0..255.  An uint32  *)
(* that is parsed from or printed to text is a pair of 16-bit limbs        *)
(* [hi, lo] (value hi * 65536 + lo), so that the 32-bit boundary is exact. *)
(***************************************************************************)
EXTENDS Integers, Sequences, FiniteSets, TLC

VARIABLES
    f,          \* phc: the Format receiver UnmarshalText is called on
    lastCall,   \* phc: the error of the last UnmarshalText call on f
    accepted,   \* phc: the last text f accepted, if any (history)
    trip,       \* phc: a String / Decode / String pipeline on one value
    hashers,    \* argon2: the hashers built by New
    hashed,     \* argon2: the Hash calls made: input, collaborators, output
    verified,   \* argon2: the IsSame calls made on one encoded string
    decoded,    \* argon2: the last Decode call
    input       \* argon2: the options given to New, or the string to verify

vars == <<f, lastCall, accepted, trip, hashers, hashed, verified, decoded, input>>

None == [none |-> TRUE]

----------------------------------------------------------------------------
(* Text helpers.                                                           *)

Lower == {"a","b","c","d","e","f","g","h","i","j","k","l","m",
          "n","o","p","q","r","s","t","u","v","w","x","y","z"}
Upper == {"A","B","C","D","E","F","G","H","I","J","K","L","M",
          "N","O","P","Q","R","S","T","U","V","W","X","Y","Z"}
Digit == {"0","1","2","3","4","5","6","7","8","9"}

\* [a-z0-9-]
NameClass == Lower \cup Digit \cup {"-"}
\* [a-zA-Z0-9/+.-]
ValueClass == Lower \cup Upper \cup Digit \cup {"/", "+", ".", "-"}

AllIn(s, class) == \A i \in 1..Len(s) : s[i] \in class

RECURSIVE Concat(_)
Concat(ss) == IF ss = <<>> THEN <<>> ELSE Head(ss) \o Concat(Tail(ss))

\* Position of the first sep in s, 0 when there is none.
IndexOf(s, sep) ==
    IF \E i \in 1..Len(s) : s[i] = sep
    THEN CHOOSE i \in 1..Len(s) : s[i] = sep /\ \A j \in 1..(i-1) : s[j] # sep
    ELSE 0

\* strings.Split(s, sep) for a one-character sep: always at least one piece.
RECURSIVE Split(_, _)
Split(s, sep) ==
    LET i == IndexOf(s, sep) IN
    IF i = 0 THEN <<s>>
    ELSE <<SubSeq(s, 1, i - 1)>> \o Split(SubSeq(s, i + 1, Len(s)), sep)

----------------------------------------------------------------------------
(* encoding/base64, RawStdEncoding: the standard alphabet, no padding, not *)
(* strict (the unused low bits of a final partial quantum are ignored).    *)

encodeStd ==
    <<"A","B","C","D","E","F","G","H","I","J","K","L","M",
      "N","O","P","Q","R","S","T","U","V","W","X","Y","Z",
      "a","b","c","d","e","f","g","h","i","j","k","l","m",
      "n","o","p","q","r","s","t","u","v","w","x","y","z",
      "0","1","2","3","4","5","6","7","8","9","+","/">>

Base64Class == {encodeStd[i] : i \in 1..64}

B64Index(c) == (CHOOSE i \in 1..64 : encodeStd[i] = c) - 1

\* The value of a quantum of 2..4 characters, missing ones counting as 0.
QuantumVal(q) ==
    LET d(i) == IF i <= Len(q) THEN B64Index(q[i]) ELSE 0
    IN  d(1) * 262144 + d(2) * 4096 + d(3) * 64 + d(4)

QuantumBytes(q) ==
    LET val == QuantumVal(q)
        all == <<(val \div 65536) % 256, (val \div 256) % 256, val % 256>>
    IN  SubSeq(all, 1, Len(q) - 1)

RECURSIVE DecodeQuanta(_)
DecodeQuanta(s) ==
    IF Len(s) = 0 THEN <<>>
    ELSE IF Len(s) <= 4 THEN QuantumBytes(s)
    ELSE QuantumBytes(SubSeq(s, 1, 4)) \o DecodeQuanta(SubSeq(s, 5, Len(s)))

\* base64.RawStdEncoding.DecodeString: an error on a character outside the
\* alphabet ('=' included) and on a single trailing character.
DecodeString(s) ==
    IF ~AllIn(s, Base64Class) \/ Len(s) % 4 = 1
    THEN [ok |-> FALSE, bytes |-> <<>>]
    ELSE [ok |-> TRUE, bytes |-> DecodeQuanta(s)]

\* The characters of 1..3 bytes: 2, 3 or 4 of them.
EncodeGroup(b) ==
    LET v(i) == IF i <= Len(b) THEN b[i] ELSE 0
        val  == v(1) * 65536 + v(2) * 256 + v(3)
        all  == <<encodeStd[((val \div 262144) % 64) + 1],
                  encodeStd[((val \div 4096) % 64) + 1],
                  encodeStd[((val \div 64) % 64) + 1],
                  encodeStd[(val % 64) + 1]>>
    IN  SubSeq(all, 1, Len(b) + 1)

\* The mutant of EncodeToString: StdEncoding, which pads the last group
\* with '='.
RECURSIVE EncodeToStringPadded(_)
EncodeToStringPadded(b) ==
    IF Len(b) = 0 THEN <<>>
    ELSE IF Len(b) <= 3 THEN EncodeGroup(b) \o [i \in 1..(3 - Len(b)) |-> "="]
    ELSE EncodeGroup(SubSeq(b, 1, 3)) \o EncodeToStringPadded(SubSeq(b, 4, Len(b)))

\* base64.RawStdEncoding.EncodeToString
RECURSIVE EncodeToString(_)
EncodeToString(b) ==
    IF Len(b) = 0 THEN <<>>
    ELSE IF Len(b) <= 3 THEN EncodeGroup(b)
    ELSE EncodeGroup(SubSeq(b, 1, 3)) \o EncodeToString(SubSeq(b, 4, Len(b)))

----------------------------------------------------------------------------
(* strconv: ParseUint(s, 10, bitSize) and FormatUint(n, 10) on limb pairs. *)

U32(hi, lo) == [hi |-> hi, lo |-> lo]

DigitVal(c) == CHOOSE d \in 0..9 : <<"0","1","2","3","4","5","6","7","8","9">>[d + 1] = c

\* n > 2^bitSize - 1, for bitSize 8 or 32
Exceeds(n, bitSize) ==
    IF bitSize = 8 THEN n.hi > 0 \/ n.lo > 255 ELSE n.hi >= 65536

\* The digits of s accumulated onto n, most significant first; a range
\* error as soon as the value no longer fits bitSize bits.
RECURSIVE ParseDigits(_, _, _)
ParseDigits(s, n, bitSize) ==
    IF s = <<>> THEN [ok |-> TRUE, val |-> n]
    ELSE LET lo10 == n.lo * 10 + DigitVal(Head(s))
             n1   == U32(n.hi * 10 + lo10 \div 65536, lo10 % 65536)
         IN  IF Exceeds(n1, bitSize) THEN [ok |-> FALSE, val |-> U32(0, 0)]
             ELSE ParseDigits(Tail(s), n1, bitSize)

\* strconv.ParseUint(s, 10, bitSize): no sign, no underscore, no empty text.
ParseUint(s, bitSize) ==
    IF s = <<>> \/ ~AllIn(s, Digit) THEN [ok |-> FALSE, val |-> U32(0, 0)]
    ELSE ParseDigits(s, U32(0, 0), bitSize)

RECURSIVE FormatDigits(_)
FormatDigits(n) ==
    IF n.hi = 0 /\ n.lo = 0 THEN <<>>
    ELSE LET t == (n.hi % 10) * 65536 + n.lo
         IN  FormatDigits(U32(n.hi \div 10, t \div 10))
                 \o <<encodeStd[53 + (t % 10)]>>

\* strconv.FormatUint(n, 10)
FormatUint(n) == IF n.hi = 0 /\ n.lo = 0 THEN <<"0">> ELSE FormatDigits(n)

\* strconv.Itoa of a small non-negative int
Itoa(i) == FormatUint(U32(0, i))

----------------------------------------------------------------------------
(* password/hashing/phc: Format, the format regexp, UnmarshalText, String. *)

Parameter(name, value) == [Name |-> name, Value |-> value]

Format(id, version, params, salt, hash) ==
    [ID |-> id, Version |-> version, Params |-> params, Salt |-> salt, Hash |-> hash]

\* The zero value of Format
ZeroFormat == Format(<<>>, <<>>, <<>>, <<>>, <<>>)

\* \$([a-z0-9-]{1,32})
IsID(s) == Len(s) >= 1 /\ Len(s) <= 32 /\ AllIn(s, NameClass)

\* \$v=([0-9]+)
IsVersionSegment(s) ==
    Len(s) >= 3 /\ s[1] = "v" /\ s[2] = "=" /\ AllIn(SubSeq(s, 3, Len(s)), Digit)

\* [a-z0-9-]+=[a-zA-Z0-9/+.-]+
IsPair(s) ==
    LET kv == Split(s, "=") IN
    /\ Len(kv) = 2
    /\ Len(kv[1]) >= 1 /\ AllIn(kv[1], NameClass)
    /\ Len(kv[2]) >= 1 /\ AllIn(kv[2], ValueClass)

\* pair(?:,pair)*
IsParamsSegment(s) ==
    LET pairs == Split(s, ",") IN \A i \in 1..Len(pairs) : IsPair(pairs[i])

\* \$([a-zA-Z0-9/+.-]+)
IsBinarySegment(s) == Len(s) >= 1 /\ AllIn(s, ValueClass)

\* The ways the optional groups of the regexp can take part in a match, as
\* <<version, params, salt, hash>>, in the order a leftmost-first matcher
\* tries them: every optional group is tried present before absent, an
\* earlier group before a later one; the hash group is nested in the salt's.
GroupChoices ==
    << <<1,1,1,1>>, <<1,1,1,0>>, <<1,1,0,0>>, <<1,0,1,1>>, <<1,0,1,0>>, <<1,0,0,0>>,
       <<0,1,1,1>>, <<0,1,1,0>>, <<0,1,0,0>>, <<0,0,1,1>>, <<0,0,1,0>>, <<0,0,0,0>> >>

\* The same choices with the params group tried before the version group:
\* what the regexp would do with its second and third lines merged into
\* one alternative that prefers the parameter list.
ParamsFirstChoices ==
    << <<0,1,1,1>>, <<0,1,1,0>>, <<0,1,0,0>>, <<1,1,1,1>>, <<1,1,1,0>>, <<1,1,0,0>>,
       <<1,0,1,1>>, <<1,0,1,0>>, <<1,0,0,0>>, <<0,0,1,1>>, <<0,0,1,0>>, <<0,0,0,0>> >>

\* Whether the segments after the id are exactly the groups of choice c.
\* No class of the regexp holds '$', so the segments of a match are the
\* pieces of the text between its '$' signs.
Fits(rest, c) ==
    /\ Len(rest) = c[1] + c[2] + c[3] + c[4]
    /\ c[1] = 1 => IsVersionSegment(rest[c[1]])
    /\ c[2] = 1 => IsParamsSegment(rest[c[1] + c[2]])
    /\ c[3] = 1 => IsBinarySegment(rest[c[1] + c[2] + c[3]])
    /\ c[4] = 1 => IsBinarySegment(rest[c[1] + c[2] + c[3] + c[4]])

\* The first choice from the i-th on that fits, 0 when none does.
RECURSIVE FirstFit(_, _, _)
FirstFit(rest, choices, i) ==
    IF i > Len(choices) THEN 0
    ELSE IF Fits(rest, choices[i]) THEN i
    ELSE FirstFit(rest, choices, i + 1)

\* The submatches of a match that takes the groups of choice c: an absent
\* group gives the empty string.
Submatches(id, rest, c) ==
    [id      |-> id,
     version |-> IF c[1] = 1 THEN SubSeq(rest[c[1]], 3, Len(rest[c[1]])) ELSE <<>>,
     params  |-> IF c[2] = 1 THEN rest[c[1] + c[2]] ELSE <<>>,
     salt    |-> IF c[3] = 1 THEN rest[c[1] + c[2] + c[3]] ELSE <<>>,
     hash    |-> IF c[4] = 1 THEN rest[c[1] + c[2] + c[3] + c[4]] ELSE <<>>]

MatchGroups(id, rest, choices, i) ==
    IF i = 0 THEN None ELSE Submatches(id, rest, choices[i])

\* The match of the whole regexp on the pieces of the text between '$'
\* signs: None for no match.
MatchSegments(segs, choices) ==
    IF ~(Len(segs) >= 2 /\ segs[1] = <<>> /\ IsID(segs[2])) THEN None
    ELSE MatchGroups(segs[2], SubSeq(segs, 3, Len(segs)), choices,
                     FirstFit(SubSeq(segs, 3, Len(segs)), choices, 1))

FindParamsFirst(text) == MatchSegments(Split(text, "$"), ParamsFirstChoices)

\* format.FindStringSubmatch(text): None for nil, else the submatches.
FindStringSubmatch(text) == MatchSegments(Split(text, "$"), GroupChoices)

\* The loop of UnmarshalText over strings.Split(submatches[3], ",")
SplitParams(s) ==
    LET split == Split(s, ",")
    IN  [i \in 1..Len(split) |->
            LET kv == Split(split[i], "=") IN Parameter(kv[1], kv[2])]

NoError == "nil"

\* The mutant of UnmarshalFields: it fills the receiver field by field as
\* it goes, so that an error leaves the fields parsed before it behind and
\* a success leaves the fields the text does not give.
UnmarshalInPlace(recv, sub, salt, hash) ==
    IF Len(sub.salt) > 0 /\ ~salt.ok
    THEN [f   |-> [recv EXCEPT !.ID = sub.id, !.Version = sub.version,
                               !.Params = IF Len(sub.params) > 0
                                          THEN SplitParams(sub.params) ELSE @],
          err |-> "phc: salt decoding error"]
    ELSE IF Len(sub.salt) > 0 /\ Len(sub.hash) > 0 /\ ~hash.ok
    THEN [f   |-> [recv EXCEPT !.ID = sub.id, !.Version = sub.version,
                               !.Params = IF Len(sub.params) > 0
                                          THEN SplitParams(sub.params) ELSE @,
                               !.Salt = salt.bytes],
          err |-> "phc: hash decoding error"]
    ELSE [f   |-> [recv EXCEPT !.ID = sub.id, !.Version = sub.version,
                               !.Params = IF Len(sub.params) > 0
                                          THEN SplitParams(sub.params) ELSE @,
                               !.Salt = IF Len(sub.salt) > 0 THEN salt.bytes ELSE @,
                               !.Hash = IF Len(sub.salt) > 0 /\ Len(sub.hash) > 0
                                        THEN hash.bytes ELSE @],
          err |-> NoError]

\* UnmarshalText after the match: ret is built aside and assigned to the
\* receiver at the end; salt and hash are what DecodeString gives for
\* submatches 4 and 5, used only when the submatch is not empty.
UnmarshalFields(recv, sub, salt, hash) ==
    IF Len(sub.salt) > 0 /\ ~salt.ok
    THEN [f |-> recv, err |-> "phc: salt decoding error"]
    ELSE IF Len(sub.salt) > 0 /\ Len(sub.hash) > 0 /\ ~hash.ok
    THEN [f |-> recv, err |-> "phc: hash decoding error"]
    ELSE [f |-> Format(sub.id, sub.version,
                       IF Len(sub.params) > 0 THEN SplitParams(sub.params) ELSE <<>>,
                       IF Len(sub.salt) > 0 THEN salt.bytes ELSE <<>>,
                       IF Len(sub.salt) > 0 /\ Len(sub.hash) > 0
                       THEN hash.bytes ELSE <<>>),
          err |-> NoError]

UnmarshalSubmatches(recv, sub) ==
    IF sub = None THEN [f |-> recv, err |-> "phc: not a valid format"]
    ELSE UnmarshalFields(recv, sub, DecodeString(sub.salt), DecodeString(sub.hash))

\* (f *Format) UnmarshalText(text): the receiver afterwards, and the error.
UnmarshalText(recv, text) == UnmarshalSubmatches(recv, FindStringSubmatch(text))

DecodeResult(r) == IF r.err # NoError THEN [f |-> None, err |-> r.err] ELSE r

\* phc.Decode(raw): a fresh Format, nil with the error when it fails.
PhcDecode(raw) == DecodeResult(UnmarshalText(ZeroFormat, raw))

RECURSIVE WriteParams(_, _)
WriteParams(params, i) ==
    IF i > Len(params) THEN <<>>
    ELSE (IF i > 1 THEN <<",">> ELSE <<>>)
         \o params[i].Name \o <<"=">> \o params[i].Value
         \o WriteParams(params, i + 1)

\* (f *Format) String()
FormatString(r) ==
    <<"$">> \o r.ID
    \o (IF r.Version # <<>> THEN <<"$", "v", "=">> \o r.Version ELSE <<>>)
    \o (IF Len(r.Params) > 0 THEN <<"$">> \o WriteParams(r.Params, 1) ELSE <<>>)
    \o (IF Len(r.Salt) > 0
        THEN <<"$">> \o EncodeToString(r.Salt)
             \o (IF Len(r.Hash) > 0 THEN <<"$">> \o EncodeToString(r.Hash) ELSE <<>>)
        ELSE <<>>)

----------------------------------------------------------------------------
(* golang.org/x/crypto/argon2 and crypto/subtle, the collaborators.        *)

Version == 19

argon2ID == <<"a","r","g","o","n","2","i","d">>

\* An injective code of a password: its characters as the digits 1..26 of
\* a base-27 numeral (lower-case letters only).
RECURSIVE PasswordCode(_)
PasswordCode(p) ==
    IF p = <<>> THEN 0
    ELSE (B64Index(Head(p)) - 25) + 27 * PasswordCode(Tail(p))

RECURSIVE SaltCode(_)
SaltCode(b) == IF b = <<>> THEN 0 ELSE (Head(b) + 3 * SaltCode(Tail(b))) % 256

\* argon2.IDKey(password, salt, time, memory, threads, keyLen): keyLen
\* bytes, a deterministic function of all six arguments, injective in the
\* password (of code below 256) once keyLen >= 1.
IDKey(password, salt, time, memory, threads, keyLen) ==
    LET mix == SaltCode(salt) + 5 * (time.lo % 256) + 7 * (memory.lo % 256)
               + 11 * (time.hi % 256) + 13 * (memory.hi % 256)
               + 17 * threads + 19 * (keyLen % 256)
    IN  [i \in 1..keyLen |-> (PasswordCode(password) + mix + 23 * (i - 1)) % 256]

\* subtle.ConstantTimeCompare(x, y): 1 when equal, 0 otherwise, 0 at once
\* when the lengths differ.
ConstantTimeCompare(x, y) ==
    IF Len(x) # Len(y) THEN 0 ELSE IF x = y THEN 1 ELSE 0

----------------------------------------------------------------------------
(* password/hashing/argon2: New, Hash, IsSame, EncodeWithSalt, Decode.     *)

Parameters(memory, time, parallelism, keyLength) ==
    [Memory |-> memory, Time |-> time, Parallelism |-> parallelism, KeyLength |-> keyLength]

\* A SaltGenerator is a function value. NewSaltGenerator(length, randSource)
\* reads length bytes of randSource; a generator given by the caller
\* returns fixed bytes, or fails.
NewSaltGenerator(length) == [kind |-> "rand", length |-> length]
FixedSalt(bytes) == [kind |-> "fixed", bytes |-> bytes]
FailingSalt == [kind |-> "failing"]

\* What one call of the generator can return: (bytes, nil) or (nil, err).
SaltOutcomes(g) ==
    IF g.kind = "fixed" THEN { [bytes |-> g.bytes, err |-> NoError] }
    ELSE IF g.kind = "failing" THEN { [bytes |-> <<>>, err |-> "generator failed"] }
    ELSE { [bytes |-> [i \in 1..g.length |-> 0], err |-> NoError],
           [bytes |-> [i \in 1..g.length |-> (37 * i) % 256], err |-> NoError],
           [bytes |-> <<>>, err |-> "unexpected EOF"] }

WithParameters(params) == [opt |-> "params", params |-> params]
WithSaltGenerator(g) == [opt |-> "salt", g |-> g]

\* opt(h)
ApplyOption(h, o) ==
    IF o.opt = "params" THEN [h EXCEPT !.params = o.params] ELSE [h EXCEPT !.salt = o.g]

RECURSIVE ApplyOptions(_, _)
ApplyOptions(h, opts) ==
    IF opts = <<>> THEN h ELSE ApplyOptions(ApplyOption(h, Head(opts)), Tail(opts))

defaultOptions ==
    << WithParameters(Parameters(U32(0, 46 * 1024), U32(0, 1), 1, 32)),
       WithSaltGenerator(NewSaltGenerator(16)) >>

\* New(opts...)
New(opts) ==
    ApplyOptions([params |-> None, salt |-> None], defaultOptions \o opts)

\* The three parameters of a PHC record of this hasher
PhcParams(params) ==
    << Parameter(<<"m">>, FormatUint(params.Memory)),
       Parameter(<<"t">>, FormatUint(params.Time)),
       Parameter(<<"p">>, FormatUint(U32(0, params.Parallelism))) >>

KdfCall(password, salt, params) ==
    [fn |-> "IDKey", password |-> password, salt |-> salt, time |-> params.Time,
     memory |-> params.Memory, threads |-> params.Parallelism, keyLen |-> params.KeyLength]

SaltCall == [fn |-> "salt"]

HashResult(h, password, salt, derived) ==
    [out   |-> FormatString(Format(argon2ID, Itoa(Version), PhcParams(h.params),
                                   salt, derived)),
     err   |-> NoError,
     cause |-> NoError,
     calls |-> <<SaltCall, KdfCall(password, salt, h.params)>>]

\* The mutant of Hash: a failed salt generation is not returned, the hash
\* is made with the empty salt it came with.
HashIgnoringSaltError(h, password, gen) ==
    HashResult(h, password, gen.bytes,
               IDKey(password, gen.bytes, h.params.Time, h.params.Memory,
                     h.params.Parallelism, h.params.KeyLength))

\* (h *hasher) Hash(password), gen being what h.salt() returned: the
\* string, the error with the error it wraps, and the collaborators
\* called, in order.
Hash(h, password, gen) ==
    IF gen.err # NoError
    THEN [out |-> <<>>, err |-> "salt generation error", cause |-> gen.err,
          calls |-> <<SaltCall>>]
    ELSE HashResult(h, password, gen.bytes,
                    IDKey(password, gen.bytes, h.params.Time, h.params.Memory,
                          h.params.Parallelism, h.params.KeyLength))

\* subtle.ConstantTimeCopy(1, copyedSalt, salt) into a fresh slice
CopySalt(salt) == [i \in 1..Len(salt) |-> salt[i]]

\* EncodeWithSalt(password, salt, params): the Format, and the KDF call.
EncodeWithSalt(password, salt, params) ==
    [f     |-> Format(argon2ID, Itoa(Version), PhcParams(params), CopySalt(salt),
                      IDKey(password, CopySalt(salt), params.Time, params.Memory,
                            params.Parallelism, params.KeyLength)),
     calls |-> <<KdfCall(password, CopySalt(salt), params)>>]

DecodeError(err) == [f |-> None, params |-> None, err |-> err]

\* The three ParseUint results of Decode, the hash length check and the
\* Parameters built from them.
DecodeNumbers(fmt, memory, time, parallelism) ==
    IF ~memory.ok THEN DecodeError("memory parameter decode error")
    ELSE IF ~time.ok THEN DecodeError("time parameter decode error")
    ELSE IF ~parallelism.ok THEN DecodeError("parallelims parameter decode error")
    \* len(decoded.Hash) > math.MaxUint32
    ELSE IF (Len(fmt.Hash) \div 65536) \div 65536 >= 1 THEN DecodeError("hash is too long")
    ELSE [f      |-> fmt,
          params |-> Parameters(memory.val, time.val, parallelism.val.lo % 256,
                                Len(fmt.Hash)),
          err    |-> NoError]

\* The mutant of DecodeFormat: the parallelism parsed with 32 bits, like
\* the memory and the time, and then cut to its low 8 bits.
DecodeWideParallelism(d) ==
    IF d.err # NoError THEN DecodeError("PHC decode error")
    ELSE IF d.f.ID # argon2ID THEN DecodeError("unsupported hashing function")
    ELSE IF d.f.Version # Itoa(Version) THEN DecodeError("unsupported argon2id version")
    ELSE IF Len(d.f.Params) # 3 THEN DecodeError("invalid parameter count")
    ELSE IF d.f.Params[1].Name # <<"m">> \/ d.f.Params[2].Name # <<"t">>
            \/ d.f.Params[3].Name # <<"p">>
    THEN DecodeError("parameters should be in the order: m, t, p")
    ELSE DecodeNumbers(d.f, ParseUint(d.f.Params[1].Value, 32),
                       ParseUint(d.f.Params[2].Value, 32),
                       ParseUint(d.f.Params[3].Value, 32))

\* Decode after phc.Decode, d being what it returned.
DecodeFormat(d) ==
    IF d.err # NoError THEN DecodeError("PHC decode error")
    ELSE IF d.f.ID # argon2ID THEN DecodeError("unsupported hashing function")
    ELSE IF d.f.Version # Itoa(Version) THEN DecodeError("unsupported argon2id version")
    ELSE IF Len(d.f.Params) # 3 THEN DecodeError("invalid parameter count")
    ELSE IF d.f.Params[1].Name # <<"m">> \/ d.f.Params[2].Name # <<"t">>
            \/ d.f.Params[3].Name # <<"p">>
    THEN DecodeError("parameters should be in the order: m, t, p")
    ELSE DecodeNumbers(d.f, ParseUint(d.f.Params[1].Value, 32),
                       ParseUint(d.f.Params[2].Value, 32),
                       ParseUint(d.f.Params[3].Value, 8))

\* argon2.Decode(encoded): the Format, the Parameters and the error.
Decode(encoded) == DecodeFormat(PhcDecode(encoded))

\* The mutant of CompareHashes: a password that does not match is
\* reported as an error.
CompareMismatchIsError(hash, newlyEncoded) ==
    IF ConstantTimeCompare(hash, newlyEncoded.f.Hash) = 1
    THEN [isSame |-> TRUE, err |-> NoError, calls |-> newlyEncoded.calls]
    ELSE [isSame |-> FALSE, err |-> "password mismatch", calls |-> newlyEncoded.calls]

\* The last line of IsSame
CompareHashes(hash, newlyEncoded) ==
    [isSame |-> ConstantTimeCompare(hash, newlyEncoded.f.Hash) = 1,
     err    |-> NoError,
     calls  |-> newlyEncoded.calls]

\* The mutant of IsSameDecoded: the hash re-derived with the hasher's
\* configured parameters instead of the decoded ones.
IsSameConfigured(h, password, d) ==
    IF d.err # NoError THEN [isSame |-> FALSE, err |-> d.err, calls |-> <<>>]
    ELSE CompareHashes(d.f.Hash, EncodeWithSalt(password, d.f.Salt, h.params))

\* IsSame after Decode, d being what it returned.
IsSameDecoded(h, password, d) ==
    IF d.err # NoError THEN [isSame |-> FALSE, err |-> d.err, calls |-> <<>>]
    ELSE CompareHashes(d.f.Hash, EncodeWithSalt(password, d.f.Salt, d.params))

\* (h *hasher) IsSame(password, hash): the boolean, the error, and the
\* collaborators called.
IsSame(h, password, hash) == IsSameDecoded(h, password, Decode(hash))

----------------------------------------------------------------------------
(* Inputs of the codec.                                                    *)

\* Most '$' segments after the id in a generated text
MaxSegments == 4
\* Most '$' segments after the id in a text given to the shared receiver
MaxReceiverSegments == 2
\* Most parameters in a generated record
MaxParams == 2

\* Segments: a version, a parameter named v that is no version, a plain
\* parameter, canonical base64 (one byte), base64 with unused bits set,
\* and a base64 text no decoder takes.
Segments ==
    { <<"v","=","1">>, <<"v","=","x">>, <<"m","=","1">>,
      <<"Q","Q">>, <<"Q","R">>, <<"Q">> }

ReceiverSegments ==
    { <<"v","=","1">>, <<"v","=","x">>, <<"m","=","1">>, <<"Q","Q">>,
      <<"Q","R">>, <<"Q","U","J","D">>, <<"Q">>, <<"m","=">> }

SeqsUpTo(S, n) == UNION { [1..k -> S] : k \in 0..n }

RECURSIVE JoinSegments(_)
JoinSegments(segs) ==
    IF segs = <<>> THEN <<>> ELSE <<"$">> \o Head(segs) \o JoinSegments(Tail(segs))

\* The encoded strings of TestFormat
TestTexts ==
    LET salt == <<"g","Z","i","V","/","M","1","g","P","c","2","2","E","l","A","H","/","J","h","1","H","w">>
        hash == <<"C","W","O","r","k","o","o","7","o","J","B","Q","/","i","y","h","7","u","J","0","L","O",
                  "2","a","L","E","f","r","H","w","T","W","l","l","S","A","x","T","0","z","R","n","o">>
        v19  == <<"v","=","1","9">>
        mtp  == <<"m","=","6","5","5","3","6",",","t","=","2",",","p","=","1">>
    IN  { JoinSegments(<<argon2ID>> \o segs) :
            segs \in { <<v19, mtp, salt, hash>>, <<>>, <<v19>>, <<salt>>, <<salt, hash>>,
                       <<mtp>>, <<v19 \o <<",">> \o mtp>>, <<<<"v","=","a","p","a","r","a","m">>>> } }

\* Texts the regexp refuses, and lists that start with v=<digits>
OtherTexts ==
    { <<>>, <<"a">>, <<"$">>, <<"$","A">>, <<"$","a","$">>,
      <<"$","a","$","m","=">>, <<"$","a","$","=","1">>, <<"$","a","$","v","=">>,
      <<"$","a","$","m","=","1",",">>, <<"$","a","$","M","=","1">>,
      <<"$","a","$","Q","Q","$","Q","Q","$","Q","Q">>,
      <<"$","a","$","Q","Q","$","m","=","1">>,
      <<"$","a","$","m","=","1","$","v","=","1">>,
      <<"$","a","$","v","=","1",",","m","=","2">>,
      <<"$","a","$","v","=","1",",","m","=","2","$","Q","Q">>,
      <<"$","a","$","v","=","1","$","v","=","1",",","m","=","2">>,
      <<"$","a","$","Q",".">>, <<"$","a","$","Q","U","J","D","$","Q","U","J">> }

Texts ==
    { JoinSegments(<<<<"a">>>> \o segs) : segs \in SeqsUpTo(Segments, MaxSegments) }
    \cup TestTexts \cup OtherTexts

ReceiverTexts ==
    { JoinSegments(<<<<"a">>>> \o segs) :
        segs \in SeqsUpTo(ReceiverSegments, MaxReceiverSegments) }
    \cup { <<>>, <<"$","A">> }

RecordPairs ==
    { Parameter(<<"v">>, <<"1">>), Parameter(<<"v">>, <<"x">>),
      Parameter(<<"m">>, <<"1">>), Parameter(<<"t","-","2">>, <<"A","/","+",".","-">>) }

RecordBytes == { <<>>, <<65>>, <<255, 0>>, <<1, 2, 3, 4>> }

\* The structurally valid records: hash present only if salt is.
Records ==
    { r \in [ID      : { <<"a">>, <<"a","-","2">> },
             Version : { <<>>, <<"1">>, <<"1","9">> },
             Params  : SeqsUpTo(RecordPairs, MaxParams),
             Salt    : RecordBytes,
             Hash    : RecordBytes] :
        r.Hash # <<>> => r.Salt # <<>> }

----------------------------------------------------------------------------
(* Inputs of the hasher.                                                   *)

\* Most Hash calls made on one hasher
MaxHashCalls == 2
\* Most IsSame calls made on one encoded string
MaxVerifyCalls == 2

Passwords == { <<>>, <<"a">>, <<"b">> }

SmallParams == Parameters(U32(0, 8), U32(0, 1), 1, 2)
LargeParams == Parameters(U32(1, 0), U32(0, 2), 4, 3)

\* The option lists given to New
OptionLists ==
    { <<>>,
      <<WithParameters(SmallParams)>>,
      <<WithSaltGenerator(FixedSalt(<<65>>))>>,
      <<WithParameters(SmallParams), WithSaltGenerator(FixedSalt(<<65>>))>>,
      <<WithSaltGenerator(FixedSalt(<<65, 66>>)), WithParameters(LargeParams)>>,
      <<WithParameters(SmallParams), WithParameters(LargeParams),
        WithSaltGenerator(FixedSalt(<<115,111,109,101,115,97,108,116>>))>>,
      <<WithParameters(SmallParams), WithSaltGenerator(FixedSalt(<<>>))>>,
      <<WithParameters(SmallParams), WithSaltGenerator(FailingSalt)>>,
      <<WithParameters(LargeParams), WithSaltGenerator(FailingSalt),
        WithSaltGenerator(NewSaltGenerator(3))>> }

\* The two hashers an encoded string is verified with
Verifiers ==
    << New(<<>>),
       New(<<WithParameters(LargeParams), WithSaltGenerator(FixedSalt(<<65>>))>>) >>

\* Parameter lists of an encoded string: well formed ones, at and over the
\* width of each number, with a sign, out of order, misnamed, too few and
\* too many; several faults at once.
ParamSegments ==
    LET max32  == <<"4","2","9","4","9","6","7","2","9","5">>
        over32 == <<"4","2","9","4","9","6","7","2","9","6">>
        pair(n, v) == <<n, "=">> \o v
        list(a, b, c) == a \o <<",">> \o b \o <<",">> \o c
        m(v) == pair("m", v)
        t(v) == pair("t", v)
        p(v) == pair("p", v)
    IN  { list(m(<<"8">>), t(<<"1">>), p(<<"1">>)),
          list(m(max32), t(max32), p(<<"2","5","5">>)),
          list(m(<<"0","8">>), t(<<"0","1">>), p(<<"0","0","1">>)),
          list(m(over32), t(<<"1">>), p(<<"1">>)),
          list(m(<<"x">>), t(<<"1">>), p(<<"1">>)),
          list(m(<<"8">>), t(over32), p(<<"1">>)),
          list(m(<<"8">>), t(<<"+","1">>), p(<<"1">>)),
          list(m(<<"8">>), t(<<"1">>), p(<<"2","5","6">>)),
          list(m(<<"8">>), t(<<"1">>), p(<<"-","1">>)),
          list(m(<<"8">>), t(<<"1">>), p(over32)),
          list(m(over32), t(<<"x">>), p(<<"2","5","6">>)),
          list(m(<<"8">>), t(<<"1",".","5">>), p(<<"2","5","6">>)),
          list(t(<<"1">>), m(<<"8">>), p(<<"1">>)),
          list(m(<<"8">>), p(<<"1">>), t(<<"1">>)),
          list(t(<<"x">>), m(<<"8">>), p(<<"2","5","6">>)),
          list(m(<<"8">>), t(<<"1">>), pair("q", <<"1">>)),
          m(<<"8">>) \o <<",">> \o t(<<"1">>),
          t(<<"1">>) \o <<",">> \o m(<<"x">>),
          list(m(<<"8">>), t(<<"1">>), p(<<"1">>)) \o <<",">> \o pair("x", <<"1">>),
          pair("v", <<"1","9">>) \o <<",">> \o list(m(<<"8">>), t(<<"1">>), p(<<"1">>)),
          <<>> }

\* The hash of password "a" with salt "A" under the parameters of a list
\* that parses, a fixed hash otherwise.
HashOfA(d) ==
    IF d.err = NoError THEN IDKey(<<"a">>, <<65>>, d.params.Time, d.params.Memory,
                                  d.params.Parallelism, 2)
    ELSE <<65, 66>>

\* The salt and hash segments put after a parameter list: none, a salt
\* alone, a salt and the hash of password "a" under these parameters, and
\* a salt no decoder takes.
TailsOf(ps) ==
    { <<>>, <<<<"Q","Q">>>>, <<<<"Q">>>>,
      << <<"Q","Q">>,
         EncodeToString(HashOfA(Decode(
             JoinSegments(<<argon2ID, <<"v","=","1","9">>>>
                          \o (IF ps = <<>> THEN <<>> ELSE <<ps>>))))) >> }

EncodedTexts ==
    UNION { { JoinSegments(<<id>> \o ver \o (IF ps = <<>> THEN <<>> ELSE <<ps>>) \o tail) :
                id \in { argon2ID, <<"a","r","g","o","n","2","i">> },
                ver \in { <<<<"v","=","1","9">>>>, <<<<"v","=","1","8">>>>, <<>> },
                tail \in TailsOf(ps) } :
            ps \in ParamSegments }

----------------------------------------------------------------------------
(* Operations of the codec: a record is encoded and decoded back, a text   *)
(* is decoded and encoded back.                                            *)

\* An optional value: <<>> for none, <<x>> for x.
Some(x) == <<x>>

\* r.String() of the record
EncodeRecord ==
    /\ trip.rec # None /\ trip.text = <<>>
    /\ trip' = [trip EXCEPT !.text = Some(FormatString(trip.rec))]
    /\ UNCHANGED <<f, lastCall, accepted, hashers, hashed, verified, decoded, input>>

\* phc.Decode of the text
DecodeText ==
    /\ trip.text # <<>> /\ trip.dec = None
    /\ trip' = [trip EXCEPT !.dec = PhcDecode(trip.text[1])]
    /\ UNCHANGED <<f, lastCall, accepted, hashers, hashed, verified, decoded, input>>

\* String() of what phc.Decode returned
EncodeDecoded ==
    /\ trip.dec # None /\ trip.dec.err = NoError /\ trip.re = <<>>
    /\ trip' = [trip EXCEPT !.re = Some(FormatString(trip.dec.f))]
    /\ UNCHANGED <<f, lastCall, accepted, hashers, hashed, verified, decoded, input>>

Received(t, r) ==
    /\ f' = r.f
    /\ lastCall' = r.err
    /\ accepted' = IF r.err = NoError THEN Some(t) ELSE accepted
    /\ UNCHANGED <<trip, hashers, hashed, verified, decoded, input>>

\* f.UnmarshalText(t) on the shared receiver
CallUnmarshalText(t) == Received(t, UnmarshalText(f, t))

----------------------------------------------------------------------------
(* Operations of the hasher.                                               *)

Last(s) == s[Len(s)]

\* h := New(opts...)
CallNew(opts) ==
    /\ hashers = <<>>
    /\ hashers' = <<New(opts)>>
    /\ input' = opts
    /\ UNCHANGED <<f, lastCall, accepted, trip, hashed, verified, decoded>>

HashCall(p, gen, r) ==
    [password |-> p, gen |-> gen, out |-> r.out, err |-> r.err, cause |-> r.cause,
     calls |-> r.calls]

\* h.Hash(p), the salt generator returning gen
CallHash(p) ==
    /\ Len(hashers) = 1 /\ Len(hashed) < MaxHashCalls
    /\ verified = <<>> /\ decoded = None
    /\ \E gen \in SaltOutcomes(hashers[1].salt) :
         hashed' = Append(hashed, HashCall(p, gen, Hash(hashers[1], p, gen)))
    /\ UNCHANGED <<f, lastCall, accepted, trip, hashers, verified, decoded, input>>

VerifyCall(i, p, s, r) ==
    [hasher |-> i, password |-> p, text |-> s,
     isSame |-> r.isSame, err |-> r.err, calls |-> r.calls]

\* hashers[i].IsSame(p, s)
CallIsSame(i, p, s) ==
    /\ Len(verified) < MaxVerifyCalls /\ decoded = None
    /\ verified' = Append(verified, VerifyCall(i, p, s, IsSame(hashers[i], p, s)))
    /\ UNCHANGED <<f, lastCall, accepted, trip, hashers, hashed, decoded, input>>

\* argon2.Decode(s)
CallDecode(s) ==
    /\ verified = <<>> /\ decoded = None
    /\ decoded' = [text |-> s, res |-> Decode(s)]
    /\ UNCHANGED <<f, lastCall, accepted, trip, hashers, hashed, verified, input>>

\* IsSame on the string the last Hash returned
VerifyHashed(p) ==
    /\ hashed # <<>> /\ Last(hashed).err = NoError
    /\ CallIsSame(1, p, Last(hashed).out)

\* Decode of the string the last Hash returned
DecodeHashed ==
    /\ hashed # <<>> /\ Last(hashed).err = NoError
    /\ CallDecode(Last(hashed).out)

----------------------------------------------------------------------------
(* Specifications.                                                         *)

Idle ==
    /\ f = ZeroFormat
    /\ lastCall = NoError
    /\ accepted = <<>>
    /\ trip = None
    /\ hashers = <<>>
    /\ hashed = <<>>
    /\ verified = <<>>
    /\ decoded = None
    /\ input = None

\* The codec on every record and every text
InitCodec ==
    /\ trip \in { [rec |-> r, text |-> <<>>, dec |-> None, re |-> <<>>] : r \in Records }
          \cup  { [rec |-> None, text |-> Some(t), dec |-> None, re |-> <<>>] : t \in Texts }
    /\ f = ZeroFormat /\ lastCall = NoError /\ accepted = <<>>
    /\ hashers = <<>> /\ hashed = <<>> /\ verified = <<>> /\ decoded = None
    /\ input = None

NextCodec == EncodeRecord \/ DecodeText \/ EncodeDecoded

SpecCodec == InitCodec /\ [][NextCodec]_vars

\* One receiver, any sequence of UnmarshalText calls
NextReceiver == \E t \in ReceiverTexts : CallUnmarshalText(t)

SpecReceiver == Idle /\ [][NextReceiver]_vars

\* One hasher: built, then hashing, then verifying or decoding its output
NextHasher ==
    \/ \E opts \in OptionLists : CallNew(opts)
    \/ \E p \in Passwords : CallHash(p)
    \/ \E p \in Passwords : VerifyHashed(p)
    \/ DecodeHashed

SpecHasher == Idle /\ [][NextHasher]_vars

\* Two hashers verifying or decoding one encoded string
InitVerify ==
    /\ input \in EncodedTexts
    /\ hashers = Verifiers
    /\ f = ZeroFormat /\ lastCall = NoError /\ accepted = <<>> /\ trip = None
    /\ hashed = <<>> /\ verified = <<>> /\ decoded = None

NextVerify ==
    \/ \E i \in 1..Len(Verifiers), p \in Passwords : CallIsSame(i, p, input)
    \/ CallDecode(input)

SpecVerify == InitVerify /\ [][NextVerify]_vars

----------------------------------------------------------------------------
(* The codec's claims, under SpecCodec and SpecReceiver.                   *)

\* A record whose text reads as a version: no version, and v=<digits> as
\* its only parameter.
ReadsAsVersion(r) ==
    /\ r.Version = <<>>
    /\ Len(r.Params) = 1
    /\ r.Params[1].Name = <<"v">>
    /\ AllIn(r.Params[1].Value, Digit)

\* C1 as claimed: every structurally valid record, encoded by String and
\* decoded by phc.Decode, comes back without error and equal field by
\* field.
C1_EveryRecordRoundTrips ==
    (trip.rec # None /\ trip.dec # None) =>
        (trip.dec.err = NoError /\ trip.dec.f = trip.rec)

\* C1 as amended: every structurally valid record decodes without error
\* from its own text, and comes back equal field by field unless it has no
\* version and v=<digits> as its only parameter; that record comes back
\* with the digits as its version and no parameter.
C1_RecordRoundTrip ==
    (trip.rec # None /\ trip.dec # None) =>
        /\ trip.dec.err = NoError
        /\ ~ReadsAsVersion(trip.rec) => trip.dec.f = trip.rec
        /\ ReadsAsVersion(trip.rec) =>
              trip.dec.f = [trip.rec EXCEPT !.Version = trip.rec.Params[1].Value,
                                            !.Params = <<>>]

\* A record with a version, two parameters of which the first is named v,
\* a salt and a hash has come back unchanged.
C1_Witness ==
    /\ trip.rec # None /\ trip.dec # None
    /\ trip.rec.Version # <<>> /\ Len(trip.rec.Params) >= 2
    /\ trip.rec.Params[1] = Parameter(<<"v">>, <<"1">>)
    /\ trip.rec.Hash # <<>>
    /\ trip.dec.f = trip.rec

\* C2: every string phc.Decode accepts is given back character for
\* character by String.
C2_AcceptedTextReencodes ==
    trip.re # <<>> => trip.re = trip.text

\* The segment following the id: the text between the second '$' and the
\* third (or the end).
SecondSegment(text) ==
    LET segs == Split(text, "$") IN IF Len(segs) >= 3 THEN segs[3] ELSE <<>>

StartsWithV(seg) == Len(seg) >= 2 /\ seg[1] = "v" /\ seg[2] = "="

IsVDigits(seg) ==
    /\ StartsWithV(seg) /\ Len(seg) >= 3
    /\ \A i \in 3..Len(seg) : seg[i] \in Digit

\* The value of the first pair of a parameter list that starts with v=
FirstValue(seg) ==
    LET c == IndexOf(seg, ",") IN SubSeq(seg, 3, IF c = 0 THEN Len(seg) ELSE c - 1)

\* C6: in every accepted text the segment after the id is the version
\* exactly when it is v=<digits> as a whole; any other segment that starts
\* with v= leaves the version empty and gives (v, ...) as first parameter;
\* "$argon2id$v=19" decodes to the id, version 19 and nothing else.
C6_VersionDisambiguation ==
    (trip.dec # None /\ trip.dec.err = NoError) =>
        LET seg == SecondSegment(trip.text[1])
            d   == trip.dec.f
        IN  /\ IsVDigits(seg) => d.Version = SubSeq(seg, 3, Len(seg))
            /\ ~IsVDigits(seg) => d.Version = <<>>
            /\ (StartsWithV(seg) /\ ~IsVDigits(seg)) =>
                  /\ Len(d.Params) >= 1
                  /\ d.Params[1] = Parameter(<<"v">>, FirstValue(seg))
            /\ trip.text[1] = <<"$">> \o argon2ID \o <<"$","v","=","1","9">> =>
                  d = Format(argon2ID, <<"1","9">>, <<>>, <<>>, <<>>)

\* "$argon2id$v=aparam" has been decoded to an empty version and the one
\* parameter (v, aparam).
C6_Witness ==
    /\ trip.dec # None /\ trip.dec.err = NoError
    /\ trip.text[1] = <<"$">> \o argon2ID \o <<"$","v","=","a","p","a","r","a","m">>
    /\ trip.dec.f = Format(argon2ID, <<>>,
                           <<Parameter(<<"v">>, <<"a","p","a","r","a","m">>)>>, <<>>, <<>>)

\* C10: after any sequence of UnmarshalText calls on one Format, the
\* Format is the decoding of the last text that was accepted (the zero
\* Format when none was): a failed call changes no field, a successful
\* one replaces them all.
C10_AllOrNothing ==
    f = IF accepted = <<>> THEN ZeroFormat ELSE PhcDecode(accepted[1]).f

\* A call failed on its hash segment, after its salt was decoded, on a
\* receiver that holds a version and a salt of an earlier text.
C10_Witness ==
    /\ lastCall = "phc: hash decoding error"
    /\ accepted # <<>>
    /\ f.Version # <<>> /\ f.Salt # <<>> /\ f.Hash = <<>>

----------------------------------------------------------------------------
(* The hasher's claims, under SpecHasher and SpecVerify.                   *)

\* C3: IsSame on what Hash returned for password p gives (true, nil) for p
\* and (false, nil) for every other password.
C3_IsSameTellsPasswordsApart ==
    \A i \in 1..Len(verified) :
        /\ verified[i].err = NoError
        /\ verified[i].isSame = (verified[i].password = Last(hashed).password)

\* What the KDF gives for the arguments of a recorded call
Derived(c) == IDKey(c.password, c.salt, c.time, c.memory, c.threads, c.keyLen)

\* C4: the calls of IsSame on one string all fail or all succeed, whatever
\* the password, and with one error; a failed call answers false, and a
\* call that does not fail on a password whose derived hash is not the
\* one of the string answers false with a nil error.
C4_WrongPasswordIsNoError ==
    \A i, j \in 1..Len(verified) :
        /\ verified[i].err = verified[j].err
        /\ verified[i].err # NoError => ~verified[i].isSame
        /\ (/\ verified[i].calls # <<>>
            /\ Derived(verified[i].calls[1]) # PhcDecode(verified[i].text).f.Hash)
              => (verified[i].err = NoError /\ ~verified[i].isSame)

\* The same string was verified with two passwords, without error: one
\* matched, the other did not.
C4_Witness ==
    /\ Len(verified) = 2
    /\ verified[1].password # verified[2].password
    /\ verified[1].err = NoError /\ verified[2].err = NoError
    /\ verified[1].isSame /\ ~verified[2].isSame

RECURSIVE StripZeros(_)
StripZeros(v) ==
    IF Len(v) > 1 /\ Head(v) = "0" THEN StripZeros(Tail(v)) ELSE v

\* a <= b for two digit strings of one length
RECURSIVE DigitsLeq(_, _)
DigitsLeq(a, b) ==
    IF a = <<>> THEN TRUE
    ELSE IF Head(a) # Head(b) THEN DigitVal(Head(a)) < DigitVal(Head(b))
    ELSE DigitsLeq(Tail(a), Tail(b))

\* v is an unsigned decimal that is at most max (a digit string)
IsDecimalUpTo(v, max) ==
    /\ v # <<>> /\ \A i \in 1..Len(v) : v[i] \in Digit
    /\ \/ Len(StripZeros(v)) < Len(max)
       \/ Len(StripZeros(v)) = Len(max) /\ DigitsLeq(StripZeros(v), max)

Max32 == <<"4","2","9","4","9","6","7","2","9","5">>
Max8 == <<"2","5","5">>

\* The error the claim gives for a string, from what phc.Decode gives
ClaimedError(d) ==
    IF d.err # NoError THEN "PHC decode error"
    ELSE IF d.f.ID # argon2ID THEN "unsupported hashing function"
    ELSE IF d.f.Version # <<"1","9">> THEN "unsupported argon2id version"
    ELSE IF Len(d.f.Params) # 3 THEN "invalid parameter count"
    ELSE IF <<d.f.Params[1].Name, d.f.Params[2].Name, d.f.Params[3].Name>>
            # << <<"m">>, <<"t">>, <<"p">> >>
    THEN "parameters should be in the order: m, t, p"
    ELSE IF ~IsDecimalUpTo(d.f.Params[1].Value, Max32) THEN "memory parameter decode error"
    ELSE IF ~IsDecimalUpTo(d.f.Params[2].Value, Max32) THEN "time parameter decode error"
    ELSE IF ~IsDecimalUpTo(d.f.Params[3].Value, Max8)
    THEN "parallelims parameter decode error"
    ELSE NoError

\* C5: argon2.Decode fails exactly when phc.Decode fails, the id is not
\* argon2id, the version is not 19, there are not three parameters, they
\* are not named m, t, p in this order, or a value is not an unsigned
\* decimal of its width, the first of these deciding the error; it gives
\* no Parameters then, and otherwise the Format of phc.Decode with the
\* numbers parsed. IsSame calls the KDF only when Decode succeeds.
C5_DecodeValidation ==
    /\ decoded # None =>
          LET d == PhcDecode(decoded.text)
              r == decoded.res
          IN  /\ r.err = ClaimedError(d)
              /\ r.err # NoError => (r.f = None /\ r.params = None)
              /\ r.err = NoError =>
                    /\ r.f = d.f
                    /\ FormatUint(r.params.Memory) = StripZeros(d.f.Params[1].Value)
                    /\ FormatUint(r.params.Time) = StripZeros(d.f.Params[2].Value)
                    /\ Itoa(r.params.Parallelism) = StripZeros(d.f.Params[3].Value)
    /\ \A i \in 1..Len(verified) :
          /\ verified[i].err = ClaimedError(PhcDecode(verified[i].text))
          /\ verified[i].calls # <<>> => verified[i].err = NoError

\* Decode has refused a string of the right id and version whose m and t
\* are in range and whose p is 256.
C5_Witness ==
    /\ decoded # None
    /\ decoded.res.err = "parallelims parameter decode error"
    /\ PhcDecode(decoded.text).f.Params[3].Value = <<"2","5","6">>

\* C7: two calls of IsSame with one password on one string give the same
\* boolean and the same error whichever hasher makes them, and the KDF is
\* called with the memory, time and parallelism written in the string,
\* the salt decoded from it and the length of its decoded hash.
C7_ParameterFidelity ==
    /\ \A i, j \in 1..Len(verified) :
          verified[i].password = verified[j].password =>
              /\ verified[i].isSame = verified[j].isSame
              /\ verified[i].err = verified[j].err
    /\ \A i \in 1..Len(verified) :
          verified[i].err = NoError =>
              LET d == PhcDecode(verified[i].text).f
                  c == verified[i].calls
              IN  /\ Len(c) = 1 /\ c[1].fn = "IDKey"
                  /\ c[1].password = verified[i].password
                  /\ c[1].salt = d.Salt
                  /\ c[1].keyLen = Len(d.Hash)
                  /\ FormatUint(c[1].memory) = StripZeros(d.Params[1].Value)
                  /\ FormatUint(c[1].time) = StripZeros(d.Params[2].Value)
                  /\ Itoa(c[1].threads) = StripZeros(d.Params[3].Value)

\* Two hashers of different Parameters have verified the right password
\* on one string, and both answered true.
C7_Witness ==
    /\ Len(verified) = 2
    /\ verified[1].hasher # verified[2].hasher
    /\ hashers[1].params # hashers[2].params
    /\ verified[1].password = verified[2].password
    /\ verified[1].isSame /\ verified[2].isSame

\* C8: what Hash returned is accepted by argon2.Decode and decodes to
\* argon2id, version 19, m, t, p with the decimal text of the configured
\* numbers, the salt the generator returned, the hash derived from them
\* and the configured KeyLength; two calls with one password and one salt
\* return the same string.
C8_HashCarriesItsInputs ==
    /\ decoded # None =>
          LET c == Last(hashed)
              h == hashers[1]
              r == decoded.res
          IN  /\ r.err = NoError
              /\ r.f.ID = argon2ID /\ r.f.Version = <<"1","9">>
              /\ Len(r.f.Params) = 3
              /\ r.f.Params[1].Name = <<"m">> /\ r.f.Params[2].Name = <<"t">>
              /\ r.f.Params[3].Name = <<"p">>
              /\ \A k \in 1..3 : r.f.Params[k].Value = StripZeros(r.f.Params[k].Value)
              /\ r.params.Memory = h.params.Memory
              /\ r.params.Time = h.params.Time
              /\ r.params.Parallelism = h.params.Parallelism
              /\ r.f.Salt = c.gen.bytes
              /\ r.f.Hash = IDKey(c.password, c.gen.bytes, h.params.Time, h.params.Memory,
                                  h.params.Parallelism, h.params.KeyLength)
              /\ r.params.KeyLength = h.params.KeyLength
    /\ \A i, j \in 1..Len(hashed) :
          (hashed[i].password = hashed[j].password /\ hashed[i].gen = hashed[j].gen)
              => hashed[i].out = hashed[j].out

\* The configuration New must give for a list of options: the last
\* option of each kind, the default when there is none.
RECURSIVE LastOption(_, _, _)
LastOption(opts, kind, default) ==
    IF opts = <<>> THEN default
    ELSE IF opts[Len(opts)].opt = kind THEN opts[Len(opts)]
    ELSE LastOption(SubSeq(opts, 1, Len(opts) - 1), kind, default)

\* C9: every Hash calls the salt generator once, first; when it fails Hash
\* returns "" and an error wrapping the generator's, and calls no KDF;
\* otherwise it calls the KDF once, after it. IsSame never calls the
\* generator. New gives the caller's Parameters and generator when the
\* options hold them, the defaults otherwise.
C9_SaltGeneratorProtocol ==
    /\ \A i \in 1..Len(hashed) :
          LET c == hashed[i] IN
          /\ c.calls[1] = SaltCall
          /\ \A k \in 2..Len(c.calls) : c.calls[k].fn # SaltCall.fn
          /\ c.gen.err # NoError =>
                /\ c.out = <<>> /\ c.err # NoError /\ c.cause = c.gen.err
                /\ Len(c.calls) = 1
          /\ c.gen.err = NoError =>
                /\ c.err = NoError /\ Len(c.calls) = 2 /\ c.calls[2].fn = "IDKey"
                /\ c.calls[2].salt = c.gen.bytes
    /\ \A i \in 1..Len(verified) :
          \A k \in 1..Len(verified[i].calls) : verified[i].calls[k].fn # SaltCall.fn
    /\ hashers # <<>> =>
          /\ hashers[1].params =
                LastOption(input, "params",
                           WithParameters(Parameters(U32(0, 47104), U32(0, 1), 1, 32))).params
          /\ hashers[1].salt =
                LastOption(input, "salt", WithSaltGenerator(NewSaltGenerator(16))).g

\* A hasher built with a failing generator given after Parameters has
\* hashed: the generator was called, the KDF was not, and Hash returned
\* the error.
C9_Witness ==
    /\ Len(hashers) = 1 /\ hashers[1].salt = FailingSalt
    /\ hashers[1].params = SmallParams
    /\ Len(hashed) >= 1
    /\ hashed[1].calls = <<SaltCall>> /\ hashed[1].err = "salt generation error"

=============================================================================
